---- MODULE Spec2Model ----
(***************************************************************************)
(* Model of the subtitle transliteration tools: the SRT repair passes,     *)
(* the timestamp restoration and the file pipeline of cleanup_srt.py, and  *)
(* the request loop and the response sanitizer of translate.py.            *)
(*                                                                         *)
(* A Python str is modelled as a sequence of one-character strings, so     *)
(* strip, split, join, isdigit, the regular expression and str.replace are *)
(* computed character by character as the interpreter computes them.       *)
(* Python indexes from 0, TLA+ sequences from 1: the loop index i of the   *)
(* model is the code's i + 1.                                              *)
(***************************************************************************)
EXTENDS Integers, Sequences, FiniteSets, TLC

VARIABLES
    pc,                      \* position of the running entry point
    result,                  \* the return value of the entry point, None while it runs
    \* the repair passes
    content,                 \* the text handed to the repair passes / read from the file
    cleaned,                 \* clean_srt_content(content)
    fixed,                   \* fix_srt_numbering(content)
    refixed,                 \* fix_srt_numbering(fixed)
    \* process_srt_file
    file_content,            \* the processed file on disk
    source_file,             \* what lies at the source path: Missing, Unreadable or its text
    fixed_content,           \* fix_srt_numbering(clean_srt_content(content))
    final_content,           \* the text to write back
    error,                   \* the exception process_srt_file caught, None if none
    \* process_single_file
    attempt,                 \* the loop variable of the retry loop
    requests,                \* the number of requests.post calls issued
    responses,               \* the outcome of each call, in order
    wait_time,               \* the bounds of the last random wait, <<0, 0>> if none
    \* save_single_transliterated_file and find_source_file
    transliterated_content,  \* the text of the API response
    series_name,
    base_output_folder,
    original_file_path,
    output_path,             \* where the driver writes the transliterated file
    saved_content,           \* the text written there
    source_file_path,        \* find_source_file(output_path)
    \* the two main functions
    srt_files_by_series,     \* translate.py: the number of .srt files of each series folder
    series_i,                \* the series main is at
    file_i,                  \* the file process_series, or the cleanup's main, is at
    success_count,           \* process_series.success_count
    successful_series,       \* translate.py main.successful_series
    failed_series,           \* translate.py main.failed_series
    srt_files,               \* cleanup_srt.py: the number of files find_srt_files found
    successful,              \* cleanup_srt.py main.successful
    failed,                  \* cleanup_srt.py main.failed
    attempted                \* the files the loops have taken up, with how each ended

repairVars == <<content, cleaned, fixed, refixed>>

fileVars == <<file_content, source_file, fixed_content, final_content, error>>

driverVars == <<attempt, requests, responses, wait_time>>

saveVars == <<transliterated_content, series_name, base_output_folder, original_file_path,
              output_path, saved_content, source_file_path>>

batchVars == <<srt_files_by_series, series_i, file_i, success_count, successful_series,
               failed_series, srt_files, successful, failed, attempted>>

vars == <<pc, result, repairVars, fileVars, driverVars, saveVars, batchVars>>

-----------------------------------------------------------------------------
(* Bounds of the model *)

MaxLines == 4

MaxFileLines == 4

MaxSourceCues == 2

MaxSaveLines == 4

MaxNamePieces == 3

MaxSeries == 2

MaxFiles == 2

MaxFound == 3

MaxBrokenLines == 3

-----------------------------------------------------------------------------
(* Python str primitives *)

Digits == {"0", "1", "2", "3", "4", "5", "6", "7", "8", "9"}

\* str.strip() and the regular expression's \s: the whitespace characters
Whitespace == {" ", "\t", "\n", "\r"}

None == <<"None">>

\* The parts of the state an entry point does not use
RepairIdle == content = None /\ cleaned = None /\ fixed = None /\ refixed = None

FileIdle ==
    /\ file_content = None /\ source_file = None /\ fixed_content = None
    /\ final_content = None /\ error = None

DriverIdle == attempt = 0 /\ requests = 0 /\ responses = <<>> /\ wait_time = <<0, 0>>

SaveIdle ==
    /\ transliterated_content = None /\ series_name = None /\ base_output_folder = None
    /\ original_file_path = None /\ output_path = None /\ saved_content = None
    /\ source_file_path = None

BatchIdle ==
    /\ srt_files_by_series = <<>> /\ series_i = 0 /\ file_i = 0 /\ success_count = 0
    /\ successful_series = 0 /\ failed_series = <<>> /\ srt_files = 0
    /\ successful = 0 /\ failed = 0 /\ attempted = <<>>

SetMin(S) == CHOOSE x \in S : \A y \in S : x <= y

SetMax(S) == CHOOSE x \in S : \A y \in S : x >= y

\* str.isdigit(): non-empty and every character a digit
IsDigit(s) == Len(s) > 0 /\ \A k \in 1..Len(s) : s[k] \in Digits

\* str.strip()
Strip(s) ==
    LET keep == {k \in 1..Len(s) : s[k] \notin Whitespace}
    IN  IF keep = {} THEN <<>> ELSE SubSeq(s, SetMin(keep), SetMax(keep))

\* str.split('\n'): always at least one piece
Split(s) ==
    LET nl == {k \in 1..Len(s) : s[k] = "\n"}
        cut(j) == IF j = 0 THEN 0
                  ELSE IF j = Cardinality(nl) + 1 THEN Len(s) + 1
                  ELSE CHOOSE p \in nl : Cardinality({q \in nl : q < p}) = j - 1
    IN  [j \in 1..(Cardinality(nl) + 1) |-> SubSeq(s, cut(j - 1) + 1, cut(j) - 1)]

\* '\n'.join(lines)
RECURSIVE Join(_)
Join(lines) ==
    IF Len(lines) = 0 THEN <<>>
    ELSE IF Len(lines) = 1 THEN lines[1]
    ELSE lines[1] \o <<"\n">> \o Join(Tail(lines))

DigitChar(d) == <<"0", "1", "2", "3", "4", "5", "6", "7", "8", "9">>[d + 1]

\* str(n) for n >= 0
RECURSIVE Str(_)
Str(n) == IF n < 10 THEN <<DigitChar(n)>> ELSE Str(n \div 10) \o <<DigitChar(n % 10)>>

-----------------------------------------------------------------------------
(* The time-interval pattern                                               *)
(*   \d{2}:\d{2}:\d{2},\d{3}\s*-->\s*\d{2}:\d{2}:\d{2},\d{3}               *)

DigitAt(s, k) == k <= Len(s) /\ s[k] \in Digits

CharAt(s, k, c) == k <= Len(s) /\ s[k] = c

\* \d{2}:\d{2}:\d{2},\d{3} at position k (12 characters)
StampAt(s, k) ==
    /\ DigitAt(s, k) /\ DigitAt(s, k + 1) /\ CharAt(s, k + 2, ":")
    /\ DigitAt(s, k + 3) /\ DigitAt(s, k + 4) /\ CharAt(s, k + 5, ":")
    /\ DigitAt(s, k + 6) /\ DigitAt(s, k + 7) /\ CharAt(s, k + 8, ",")
    /\ DigitAt(s, k + 9) /\ DigitAt(s, k + 10) /\ DigitAt(s, k + 11)

\* \s* from position k: the first position that holds no whitespace
SkipSpace(s, k) == SetMin({j \in k..(Len(s) + 1) : j = Len(s) + 1 \/ s[j] \notin Whitespace})

\* The pattern matched at position k: the position of the match's last
\* character, 0 when there is no match there.
MatchEnd(s, k) ==
    IF ~StampAt(s, k) THEN 0
    ELSE LET a == SkipSpace(s, k + 12)
         IN  IF ~(CharAt(s, a, "-") /\ CharAt(s, a + 1, "-") /\ CharAt(s, a + 2, ">")) THEN 0
             ELSE LET b == SkipSpace(s, a + 3)
                  IN  IF StampAt(s, b) THEN b + 11 ELSE 0

\* re.match(pattern, line): a match at the start of the line
ReMatch(line) == MatchEnd(line, 1) # 0

-----------------------------------------------------------------------------
(* clean_srt_content *)

\* A numeric line is kept although no time interval follows it.
CleanStepKeepsStray(lines, i, cleaned_lines) ==
    LET line == Strip(lines[i])
    IN  IF line = <<>> /\ cleaned_lines = <<>>
        THEN [i |-> i + 1, cleaned_lines |-> cleaned_lines]
        ELSE IF IsDigit(line) /\ i + 1 <= Len(lines) /\ IsDigit(Strip(lines[i + 1]))
        THEN [i |-> i + 1, cleaned_lines |-> cleaned_lines]
        ELSE [i |-> i + 1, cleaned_lines |-> Append(cleaned_lines, line)]

\* A number that a time interval follows is appended together with the interval,
\* and the loop still moves on by one line.
CleanStepCopiesInterval(lines, i, cleaned_lines) ==
    LET line == Strip(lines[i])
    IN  IF line = <<>> /\ cleaned_lines = <<>>
        THEN [i |-> i + 1, cleaned_lines |-> cleaned_lines]
        ELSE IF IsDigit(line)
        THEN IF i + 1 <= Len(lines) /\ IsDigit(Strip(lines[i + 1]))
             THEN [i |-> i + 1, cleaned_lines |-> cleaned_lines]
             ELSE IF i + 1 <= Len(lines) /\ ReMatch(Strip(lines[i + 1]))
             THEN [i |-> i + 1,
                   cleaned_lines |-> cleaned_lines \o <<line, Strip(lines[i + 1])>>]
             ELSE [i |-> i + 1, cleaned_lines |-> cleaned_lines]
        ELSE [i |-> i + 1, cleaned_lines |-> Append(cleaned_lines, line)]

\* One iteration of the while loop
CleanStep(lines, i, cleaned_lines) ==
    LET line == Strip(lines[i])
    IN  IF line = <<>> /\ cleaned_lines = <<>>
        THEN [i |-> i + 1, cleaned_lines |-> cleaned_lines]
        ELSE IF IsDigit(line)
        THEN IF i + 1 <= Len(lines) /\ IsDigit(Strip(lines[i + 1]))
             THEN [i |-> i + 1, cleaned_lines |-> cleaned_lines]
             ELSE IF i + 1 <= Len(lines) /\ ReMatch(Strip(lines[i + 1]))
             THEN [i |-> i + 1, cleaned_lines |-> Append(cleaned_lines, line)]
             ELSE [i |-> i + 1, cleaned_lines |-> cleaned_lines]
        ELSE [i |-> i + 1, cleaned_lines |-> Append(cleaned_lines, line)]

RECURSIVE CleanLoop(_, _, _)
CleanLoop(lines, i, cleaned_lines) ==
    IF i > Len(lines) THEN cleaned_lines
    ELSE LET s == CleanStep(lines, i, cleaned_lines)
         IN  CleanLoop(lines, s.i, s.cleaned_lines)

clean_srt_content(text) == Join(CleanLoop(Split(Strip(text)), 1, <<>>))

-----------------------------------------------------------------------------
(* fix_srt_numbering *)

\* A numeric line that no time interval follows is passed through.
FixStepKeepsStray(lines, i, fixed_lines, subtitle_number) ==
    LET line == Strip(lines[i])
    IN  IF line = <<>> /\ fixed_lines = <<>>
        THEN [i |-> i + 1, fixed_lines |-> fixed_lines, subtitle_number |-> subtitle_number]
        ELSE IF IsDigit(line) /\ i + 1 <= Len(lines) /\ ReMatch(Strip(lines[i + 1]))
        THEN [i |-> i + 1, fixed_lines |-> Append(fixed_lines, Str(subtitle_number)),
              subtitle_number |-> subtitle_number + 1]
        ELSE [i |-> i + 1, fixed_lines |-> Append(fixed_lines, line),
              subtitle_number |-> subtitle_number]

\* The index steps over the time interval that confirmed the number.
FixStepSkipsInterval(lines, i, fixed_lines, subtitle_number) ==
    LET line == Strip(lines[i])
    IN  IF line = <<>> /\ fixed_lines = <<>>
        THEN [i |-> i + 1, fixed_lines |-> fixed_lines, subtitle_number |-> subtitle_number]
        ELSE IF IsDigit(line)
        THEN IF i + 1 <= Len(lines) /\ ReMatch(Strip(lines[i + 1]))
             THEN [i |-> i + 2, fixed_lines |-> Append(fixed_lines, Str(subtitle_number)),
                   subtitle_number |-> subtitle_number + 1]
             ELSE [i |-> i + 1, fixed_lines |-> fixed_lines, subtitle_number |-> subtitle_number]
        ELSE [i |-> i + 1, fixed_lines |-> Append(fixed_lines, line),
              subtitle_number |-> subtitle_number]

\* The counter is not advanced after a number is emitted.
FixStepNoIncrement(lines, i, fixed_lines, subtitle_number) ==
    LET line == Strip(lines[i])
    IN  IF line = <<>> /\ fixed_lines = <<>>
        THEN [i |-> i + 1, fixed_lines |-> fixed_lines, subtitle_number |-> subtitle_number]
        ELSE IF IsDigit(line)
        THEN IF i + 1 <= Len(lines) /\ ReMatch(Strip(lines[i + 1]))
             THEN [i |-> i + 1, fixed_lines |-> Append(fixed_lines, Str(subtitle_number)),
                   subtitle_number |-> subtitle_number]
             ELSE [i |-> i + 1, fixed_lines |-> fixed_lines, subtitle_number |-> subtitle_number]
        ELSE [i |-> i + 1, fixed_lines |-> Append(fixed_lines, line),
              subtitle_number |-> subtitle_number]

\* One iteration of the while loop
FixStep(lines, i, fixed_lines, subtitle_number) ==
    LET line == Strip(lines[i])
    IN  IF line = <<>> /\ fixed_lines = <<>>
        THEN [i |-> i + 1, fixed_lines |-> fixed_lines, subtitle_number |-> subtitle_number]
        ELSE IF IsDigit(line)
        THEN IF i + 1 <= Len(lines) /\ ReMatch(Strip(lines[i + 1]))
             THEN [i |-> i + 1, fixed_lines |-> Append(fixed_lines, Str(subtitle_number)),
                   subtitle_number |-> subtitle_number + 1]
             ELSE [i |-> i + 1, fixed_lines |-> fixed_lines, subtitle_number |-> subtitle_number]
        ELSE [i |-> i + 1, fixed_lines |-> Append(fixed_lines, line),
              subtitle_number |-> subtitle_number]

RECURSIVE FixLoop(_, _, _, _)
FixLoop(lines, i, fixed_lines, subtitle_number) ==
    IF i > Len(lines) THEN fixed_lines
    ELSE LET s == FixStep(lines, i, fixed_lines, subtitle_number)
         IN  FixLoop(lines, s.i, s.fixed_lines, s.subtitle_number)

fix_srt_numbering(text) == Join(FixLoop(Split(Strip(text)), 1, <<>>, 1))

-----------------------------------------------------------------------------
(* Input texts *)

\* HH:MM:SS,mmm with the seconds digit s
Stamp(s) == <<"0", "0", ":", "0", "0", ":", "0", s, ",", "0", "0", "0">>

Arrow == <<"-", "-", ">">>

IntervalA == Stamp("1") \o <<" ">> \o Arrow \o <<" ">> \o Stamp("2")

IntervalB == Stamp("2") \o Arrow \o Stamp("3")

\* The raw lines a subtitle text is made of
RawLines ==
    { <<"1">>, <<"7">>, <<" ", "2", "\r">>, IntervalA, <<" ">> \o IntervalB,
      <<"h", "i">>, <<>> }

SeqsUpTo(S, n) == UNION {[1..m -> S] : m \in 1..n}

Texts == {Join(ls) : ls \in SeqsUpTo(RawLines, MaxLines)}

-----------------------------------------------------------------------------
(* The repair passes applied to a text *)

InitRepair ==
    /\ pc = "clean"
    /\ content \in Texts
    /\ cleaned = None
    /\ fixed = None
    /\ refixed = None
    /\ result = None
    /\ FileIdle /\ DriverIdle /\ SaveIdle /\ BatchIdle

CleanSrtContent ==
    /\ pc = "clean"
    /\ cleaned' = clean_srt_content(content)
    /\ pc' = "fix"
    /\ UNCHANGED <<content, fixed, refixed, result, fileVars, driverVars, saveVars, batchVars>>

FixSrtNumbering ==
    /\ pc = "fix"
    /\ fixed' = fix_srt_numbering(content)
    /\ pc' = "refix"
    /\ UNCHANGED <<content, cleaned, refixed, result, fileVars, driverVars, saveVars, batchVars>>

FixSrtNumberingAgain ==
    /\ pc = "refix"
    /\ refixed' = fix_srt_numbering(fixed)
    /\ pc' = "repaired"
    /\ UNCHANGED <<content, cleaned, fixed, result, fileVars, driverVars, saveVars, batchVars>>

NextRepair == CleanSrtContent \/ FixSrtNumbering \/ FixSrtNumberingAgain

SpecRepair == InitRepair /\ [][NextRepair]_vars

-----------------------------------------------------------------------------
(* extract_timestamps_from_content and replace_timestamps_with_originals *)

\* re.findall(pattern, text) from position k: the matches left to right,
\* none overlapping another
RECURSIVE FindAllFrom(_, _)
FindAllFrom(text, k) ==
    IF k > Len(text) THEN <<>>
    ELSE LET e == MatchEnd(text, k)
         IN  IF e # 0 THEN <<SubSeq(text, k, e)>> \o FindAllFrom(text, e + 1)
             ELSE FindAllFrom(text, k + 1)

extract_timestamps_from_content(text) == FindAllFrom(text, 1)

\* str.replace(old, new, 1): the first occurrence of old in s, if any
ReplaceFirst(s, old, new) ==
    LET hits == {k \in 1..(Len(s) - Len(old) + 1) : SubSeq(s, k, k + Len(old) - 1) = old}
    IN  IF hits = {} THEN s
        ELSE LET k == SetMin(hits)
             IN  SubSeq(s, 1, k - 1) \o new \o SubSeq(s, k + Len(old), Len(s))

\* The for loop over zip(source_timestamps, processed_timestamps), from pair i
RECURSIVE ReplaceLoop(_, _, _, _)
ReplaceLoop(result_content, source_timestamps, processed_timestamps, i) ==
    IF i > Len(source_timestamps) \/ i > Len(processed_timestamps) THEN result_content
    ELSE ReplaceLoop(ReplaceFirst(result_content, processed_timestamps[i], source_timestamps[i]),
                     source_timestamps, processed_timestamps, i + 1)

Missing == <<"Missing">>

Unreadable == <<"Unreadable">>

\* The counts are not compared: the pairs zip yields are replaced.
RestoreWithoutCountCheck(processed_content, source) ==
    IF source = Unreadable THEN processed_content
    ELSE LET source_timestamps == extract_timestamps_from_content(source)
             processed_timestamps == extract_timestamps_from_content(processed_content)
         IN  IF source_timestamps = <<>> THEN processed_content
             ELSE ReplaceLoop(processed_content, source_timestamps, processed_timestamps, 1)

\* source is what open(source_file_path) yields: Unreadable when it raises
replace_timestamps_with_originals(processed_content, source) ==
    IF source = Unreadable THEN processed_content
    ELSE LET source_timestamps == extract_timestamps_from_content(source)
             processed_timestamps == extract_timestamps_from_content(processed_content)
         IN  IF source_timestamps = <<>> THEN processed_content
             ELSE IF Len(source_timestamps) # Len(processed_timestamps) THEN processed_content
             ELSE ReplaceLoop(processed_content, source_timestamps, processed_timestamps, 1)

-----------------------------------------------------------------------------
(* process_srt_file *)

IntervalC == Stamp("4") \o <<" ">> \o Arrow \o <<" ">> \o Stamp("5")

\* The lines of a processed file
FileLines == { <<"1">>, IntervalA, IntervalB, <<"h", "i">> }

FileTexts == {Join(ls) : ls \in SeqsUpTo(FileLines, MaxFileLines)}

\* An original file: numbered cues, a blank line after each
RECURSIVE SourceLines(_, _)
SourceLines(intervals, k) ==
    IF k > Len(intervals) THEN <<>>
    ELSE <<Str(k), intervals[k], <<"y", "o">>, <<>>>> \o SourceLines(intervals, k + 1)

SourceTexts ==
    {Join(SourceLines(iv, 1)) :
        iv \in UNION {[1..m -> {IntervalA, IntervalC}] : m \in 0..MaxSourceCues}}

InitFile ==
    /\ pc = "read"
    /\ file_content \in FileTexts
    /\ source_file \in {Missing, Unreadable} \cup SourceTexts
    /\ content = None
    /\ fixed_content = None
    /\ final_content = None
    /\ error = None
    /\ result = None
    /\ cleaned = None
    /\ fixed = None
    /\ refixed = None
    /\ DriverIdle /\ SaveIdle /\ BatchIdle

\* lines 163-165
ReadFile ==
    /\ pc = "read"
    /\ content' = file_content
    /\ pc' = "repair"
    /\ UNCHANGED <<cleaned, fixed, refixed, result, fileVars, driverVars, saveVars, batchVars>>

\* open() or read() raises: lines 189-191
ReadFileFails ==
    /\ pc = "read"
    /\ error' = <<"read">>
    /\ result' = FALSE
    /\ pc' = "returned"
    /\ UNCHANGED <<repairVars, file_content, source_file, fixed_content, final_content,
                   driverVars, saveVars, batchVars>>

\* lines 169-171
RepairContent ==
    /\ pc = "repair"
    /\ fixed_content' = fix_srt_numbering(clean_srt_content(content))
    /\ pc' = "restore"
    /\ UNCHANGED <<repairVars, file_content, source_file, final_content, error, result,
                   driverVars, saveVars, batchVars>>

\* lines 173-180
RestoreTimestamps ==
    /\ pc = "restore"
    /\ final_content' = IF source_file # Missing
                        THEN replace_timestamps_with_originals(fixed_content, source_file)
                        ELSE fixed_content
    /\ pc' = "write"
    /\ UNCHANGED <<repairVars, file_content, source_file, fixed_content, error, result,
                   driverVars, saveVars, batchVars>>

\* lines 182-187
WriteFile ==
    /\ pc = "write"
    /\ file_content' = final_content
    /\ result' = TRUE
    /\ pc' = "returned"
    /\ UNCHANGED <<repairVars, source_file, fixed_content, final_content, error,
                   driverVars, saveVars, batchVars>>

\* open() for writing or write() raises: the file is left as it was, or truncated
WriteFileFails ==
    /\ pc = "write"
    /\ file_content' \in {file_content, <<>>}
    /\ error' = <<"write">>
    /\ result' = FALSE
    /\ pc' = "returned"
    /\ UNCHANGED <<repairVars, source_file, fixed_content, final_content,
                   driverVars, saveVars, batchVars>>

NextFile ==
    \/ ReadFile
    \/ ReadFileFails
    \/ RepairContent
    \/ RestoreTimestamps
    \/ WriteFile
    \/ WriteFileFails

SpecFile == InitFile /\ [][NextFile]_vars

-----------------------------------------------------------------------------
(* process_single_file: the retry loop around requests.post *)

max_retries == 3

\* A response with an OK status whose body lacks the expected fields
MalformedBodies == {"no candidates", "empty candidates", "no content", "no parts"}

\* range(max_retries) holds a value after attempt: the bound is off by one.
LoopHasNextInclusive(a) == a + 1 <= max_retries

\* range(max_retries) holds a value after attempt
LoopHasNext(a) == a + 1 < max_retries

InitDriver ==
    /\ pc = "request"
    /\ attempt = 0
    /\ requests = 0
    /\ responses = <<>>
    /\ wait_time = <<0, 0>>
    /\ result = None
    /\ RepairIdle /\ FileIdle /\ SaveIdle /\ BatchIdle

\* requests.post is called and ends as `outcome`
Called(outcome) ==
    /\ pc = "request"
    /\ requests' = requests + 1
    /\ responses' = Append(responses, outcome)

\* The loop body ended without return or break: the next attempt, or the end
\* of the loop and lines 254-255
NextAttempt ==
    IF LoopHasNext(attempt)
    THEN attempt' = attempt + 1 /\ pc' = "request" /\ result' = None
    ELSE attempt' = attempt /\ pc' = "returned" /\ result' = FALSE

\* break, then lines 254-255
BreakLoop == attempt' = attempt /\ pc' = "returned" /\ result' = FALSE

Others == <<repairVars, fileVars, saveVars, batchVars>>

\* lines 200-214: a well-formed response, saved
ValidResponseSaved ==
    /\ Called("ok")
    /\ attempt' = attempt /\ pc' = "returned" /\ result' = TRUE
    /\ UNCHANGED <<wait_time, Others>>

\* lines 215-217: a well-formed response, save_single_transliterated_file returns False
ValidResponseNotSaved ==
    /\ Called("ok, not saved")
    /\ attempt' = attempt /\ pc' = "returned" /\ result' = FALSE
    /\ UNCHANGED <<wait_time, Others>>

\* lines 204-221: the body lacks the expected fields; the message is printed
\* and the loop body ends
MalformedResponse ==
    /\ \E body \in MalformedBodies : Called(body)
    /\ NextAttempt
    /\ UNCHANGED <<wait_time, Others>>

\* line 206: 'parts' is empty or its first part holds no 'text': IndexError or
\* KeyError, caught at lines 250-252
UnusableParts ==
    /\ Called("unusable parts")
    /\ BreakLoop
    /\ UNCHANGED <<wait_time, Others>>

\* lines 225-229
RateLimited ==
    /\ Called("429")
    /\ wait_time' = <<10, 20>>
    /\ NextAttempt
    /\ UNCHANGED Others

\* lines 230-234
ServerError ==
    /\ Called("5xx")
    /\ wait_time' = <<5, 10>>
    /\ NextAttempt
    /\ UNCHANGED Others

\* lines 235-236
ClientError ==
    /\ Called("4xx")
    /\ BreakLoop
    /\ UNCHANGED <<wait_time, Others>>

\* lines 238-249: Timeout or another RequestException. response.json() on a
\* body that is not JSON raises this or, with an older requests, the
\* ValueError of UnexpectedError.
RequestFails ==
    /\ \E e \in {"timeout", "request exception"} : Called(e)
    /\ wait_time' = IF attempt < max_retries - 1 THEN <<5, 10>> ELSE wait_time
    /\ NextAttempt
    /\ UNCHANGED Others

\* lines 250-252
UnexpectedError ==
    /\ Called("exception")
    /\ BreakLoop
    /\ UNCHANGED <<wait_time, Others>>

NextDriver ==
    \/ ValidResponseSaved
    \/ ValidResponseNotSaved
    \/ MalformedResponse
    \/ UnusableParts
    \/ RateLimited
    \/ ServerError
    \/ ClientError
    \/ RequestFails
    \/ UnexpectedError

SpecDriver == InitDriver /\ [][NextDriver]_vars

\* requests.post returns or raises within its timeout, and the loop runs on
FairDriver == SpecDriver /\ WF_vars(NextDriver)

-----------------------------------------------------------------------------
(* More str and path primitives *)

\* sub in s
Contains(s, sub) ==
    \E k \in 1..(Len(s) - Len(sub) + 1) : SubSeq(s, k, k + Len(sub) - 1) = sub

\* s.startswith(prefix)
StartsWith(s, prefix) == Len(prefix) <= Len(s) /\ SubSeq(s, 1, Len(prefix)) = prefix

\* s.replace(old, new): every occurrence, left to right, none overlapping
RECURSIVE ReplaceAll(_, _, _)
ReplaceAll(s, old, new) ==
    IF Len(s) < Len(old) THEN s
    ELSE IF SubSeq(s, 1, Len(old)) = old
    THEN new \o ReplaceAll(SubSeq(s, Len(old) + 1, Len(s)), old, new)
    ELSE <<s[1]>> \o ReplaceAll(Tail(s), old, new)

\* s.rfind(c) + 1: the last position of c in s, 0 if none
LastIndex(s, c) ==
    LET at == {k \in 1..Len(s) : s[k] = c} IN IF at = {} THEN 0 ELSE SetMax(at)

\* s.split('/')
SplitSlash(s) ==
    LET sl == {k \in 1..Len(s) : s[k] = "/"}
        cut(j) == IF j = 0 THEN 0
                  ELSE IF j = Cardinality(sl) + 1 THEN Len(s) + 1
                  ELSE CHOOSE p \in sl : Cardinality({q \in sl : q < p}) = j - 1
    IN  [j \in 1..(Cardinality(sl) + 1) |-> SubSeq(s, cut(j - 1) + 1, cut(j) - 1)]

\* os.path.join(a, b)
OsPathJoin(a, b) ==
    IF StartsWith(b, <<"/">>) THEN b
    ELSE IF a = <<>> \/ a[Len(a)] = "/" THEN a \o b
    ELSE a \o <<"/">> \o b

\* os.path.basename(p)
OsPathBasename(p) == SubSeq(p, LastIndex(p, "/") + 1, Len(p))

\* os.path.splitext(name)[0] for a name without separator: the last dot
\* splits unless only dots precede it
SplitextRoot(name) ==
    LET dot == LastIndex(name, ".")
    IN  IF dot > 0 /\ \E k \in 1..(dot - 1) : name[k] # "." THEN SubSeq(name, 1, dot - 1)
        ELSE name

\* Path(p).parts: the root, then the components that are neither empty nor "."
PathParts(p) ==
    (IF StartsWith(p, <<"/">>) THEN <<<<"/">>>> ELSE <<>>)
        \o SelectSeq(SplitSlash(p), LAMBDA c : c # <<>> /\ c # <<".">>)

\* The components below the root
RECURSIVE JoinSlash(_)
JoinSlash(parts) ==
    IF Len(parts) = 0 THEN <<>>
    ELSE IF Len(parts) = 1 THEN parts[1]
    ELSE parts[1] \o <<"/">> \o JoinSlash(Tail(parts))

\* str(Path) of the parts
PathStr(parts) ==
    IF parts = <<>> THEN <<".">>
    ELSE IF parts[1] = <<"/">> THEN <<"/">> \o JoinSlash(Tail(parts))
    ELSE JoinSlash(parts)

\* PurePath.stem of a final component: the suffix starts at the last dot,
\* unless that dot begins or ends the name
PathStem(name) ==
    LET dot == LastIndex(name, ".")
    IN  IF 1 < dot /\ dot < Len(name) THEN SubSeq(name, 1, dot - 1) ELSE name

-----------------------------------------------------------------------------
(* save_single_transliterated_file *)

Suffix == <<"_", "t", "e", "l", "u", "g", "u">>

DotSrt == <<".", "s", "r", "t">>

Processed == <<"p", "r", "o", "c", "e", "s", "s", "e", "d">>

\* One iteration of the for loop, lines 270-284; line is already stripped
SanitizeStep(line, cleaned_content, subtitle_found, series) ==
    IF line # <<>> /\ IsDigit(line)
    THEN IF ~subtitle_found /\ line # <<"1">>
         THEN [cleaned_content |-> cleaned_content \o <<<<"1">>, line>>, subtitle_found |-> TRUE]
         ELSE [cleaned_content |-> Append(cleaned_content, line),
               subtitle_found |-> subtitle_found]
    ELSE IF line # <<>> /\ Contains(line, <<":">>) /\ Contains(line, <<"-", "-", ">">>)
    THEN [cleaned_content |-> Append(cleaned_content, line), subtitle_found |-> subtitle_found]
    ELSE IF line # <<>> /\ ~StartsWith(line, <<"=", "=", "=">>) /\ ~StartsWith(line, series)
    THEN [cleaned_content |-> Append(cleaned_content, line), subtitle_found |-> subtitle_found]
    ELSE [cleaned_content |-> cleaned_content, subtitle_found |-> subtitle_found]

RECURSIVE SanitizeLoop(_, _, _, _, _)
SanitizeLoop(content_lines, k, cleaned_content, subtitle_found, series) ==
    IF k > Len(content_lines) THEN cleaned_content
    ELSE LET s == SanitizeStep(Strip(content_lines[k]), cleaned_content, subtitle_found, series)
         IN  SanitizeLoop(content_lines, k + 1, s.cleaned_content, s.subtitle_found, series)

\* lines 264-287
SanitizedContent(text, series) ==
    Join(SanitizeLoop(Split(Strip(text)), 1, <<>>, FALSE, series))

\* lines 289-293
OutputPath(original, series, base) ==
    LET name_without_ext == SplitextRoot(OsPathBasename(original))
        telugu_filename == name_without_ext \o Suffix \o DotSrt
    IN  OsPathJoin(OsPathJoin(OsPathJoin(base, Processed), series), telugu_filename)

-----------------------------------------------------------------------------
(* find_source_file *)

\* parents[2] is the path without its last three components; the paths
\* handed over have at least three below the root
find_source_file(processed_file_path) ==
    LET parts == PathParts(processed_file_path)
        n == Len(parts)
        series == parts[n - 1]
        original_filename == ReplaceAll(PathStem(parts[n]), Suffix, <<>>)
        original_filename_with_ext == original_filename \o DotSrt
        base_folder == SubSeq(parts, 1, n - 3)
    IN  PathStr(base_folder \o <<series, original_filename_with_ext>>)

-----------------------------------------------------------------------------
(* The driver saves a response; the cleanup looks up its source *)

\* The lines of an API response
ResponseLines ==
    { <<"1">>, <<"2">>, IntervalA, <<"h", "i">>, <<"=", "=", "=", " ", "a">>, <<>> }

ResponseTexts == {Join(ls) : ls \in SeqsUpTo(ResponseLines, MaxSaveLines)}

SeriesNames == { <<"S", "1">>, <<"h">> }

BaseFolders == { <<"/", "t", "v">>, <<"/", "t", "v", "/">>, <<".">> }

\* The pieces the base name of an input file is made of
NamePieces ==
    { <<"e", "p">>, Suffix, <<"_", "t", "e", "l">>, <<"u", "g", "u">>, <<".", "v">> }

RECURSIVE Concat(_)
Concat(pieces) == IF pieces = <<>> THEN <<>> ELSE pieces[1] \o Concat(Tail(pieces))

BaseNames == {Concat(ps) : ps \in SeqsUpTo(NamePieces, MaxNamePieces)}

\* get_all_srt_files, lines 116-128: the path of an input file
InputPath(base, series, name) == OsPathJoin(OsPathJoin(base, series), name \o DotSrt)

SaveStart ==
    /\ pc = "save"
    /\ output_path = None
    /\ saved_content = None
    /\ source_file_path = None
    /\ result = None
    /\ RepairIdle /\ FileIdle /\ DriverIdle /\ BatchIdle

\* The responses vary, the file is one
InitSave ==
    /\ SaveStart
    /\ transliterated_content \in ResponseTexts
    /\ series_name \in SeriesNames
    /\ base_output_folder = <<"/", "t", "v">>
    /\ original_file_path = InputPath(base_output_folder, series_name, <<"e", "p">>)

\* The files vary, the response is one
InitPath ==
    /\ SaveStart
    /\ transliterated_content = Join(<<<<"1">>, IntervalA, <<"h", "i">>>>)
    /\ series_name \in SeriesNames
    /\ base_output_folder \in BaseFolders
    /\ \E name \in BaseNames :
           original_file_path = InputPath(base_output_folder, series_name, name)

\* lines 261-296, save_transliterated_srt returning True
SaveSingleTransliteratedFile ==
    /\ pc = "save"
    /\ output_path' = OutputPath(original_file_path, series_name, base_output_folder)
    /\ saved_content' = SanitizedContent(transliterated_content, series_name)
    /\ result' = TRUE
    /\ pc' = "saved"
    /\ UNCHANGED <<transliterated_content, series_name, base_output_folder,
                   original_file_path, source_file_path, repairVars, fileVars, driverVars, batchVars>>

\* lines 91-96: the write raises, save_transliterated_srt returns False
SaveFails ==
    /\ pc = "save"
    /\ output_path' = OutputPath(original_file_path, series_name, base_output_folder)
    /\ result' = FALSE
    /\ pc' = "not saved"
    /\ UNCHANGED <<transliterated_content, series_name, base_output_folder,
                   original_file_path, saved_content, source_file_path,
                   repairVars, fileVars, driverVars, batchVars>>

\* cleanup_srt.py line 174, on a file the driver wrote
FindSourceFile ==
    /\ pc = "saved"
    /\ source_file_path' = find_source_file(output_path)
    /\ pc' = "found"
    /\ UNCHANGED <<result, transliterated_content, series_name, base_output_folder,
                   original_file_path, output_path, saved_content,
                   repairVars, fileVars, driverVars, batchVars>>

NextSave == SaveSingleTransliteratedFile \/ SaveFails \/ FindSourceFile

SpecSave == InitSave /\ [][NextSave]_vars

SpecPath == InitPath /\ [][NextSave]_vars

-----------------------------------------------------------------------------
(* translate.py main and process_series; cleanup_srt.py main *)

\* How process_single_file can end: True on success, False otherwise
FileOutcomes ==
    {"success", "retries exhausted", "malformed response", "client error", "save failure"}

\* The loop leaves the series at the first file that fails.
AfterFileStopsOnFailure(i, total, ok) == IF ok THEN i + 1 ELSE total + 1

\* for i, (file_name, file_path) in enumerate(srt_files, 1): the next i,
\* whatever the file at i came to
AfterFile(i, total, ok) == i + 1

Rest == <<result, repairVars, fileVars, driverVars, saveVars>>

BatchStart ==
    /\ series_i = 0 /\ file_i = 0 /\ success_count = 0
    /\ successful_series = 0 /\ failed_series = <<>>
    /\ successful = 0 /\ failed = 0 /\ attempted = <<>>
    /\ result = None
    /\ RepairIdle /\ FileIdle /\ DriverIdle /\ SaveIdle

\* Either entry point, on a folder that holds the series and files drawn here
InitBatch ==
    /\ BatchStart
    /\ \/ /\ pc = "main"
          /\ srt_files_by_series \in UNION {[1..m -> 0..MaxFiles] : m \in 0..MaxSeries}
          /\ srt_files = 0
       \/ /\ pc = "cleanup"
          /\ srt_files_by_series = <<>>
          /\ srt_files \in 0..MaxFound

\* translate.py lines 364-369: the processed folder cannot be created
MakedirsFails ==
    /\ pc = "main"
    /\ pc' = "exit"
    /\ UNCHANGED <<batchVars, Rest>>

\* translate.py lines 371-390: the scan, and the return when it finds nothing
ScanFolder ==
    /\ pc = "main"
    /\ IF srt_files_by_series = <<>>
       THEN pc' = "exit" /\ series_i' = series_i
       ELSE pc' = "series" /\ series_i' = 1
    /\ UNCHANGED <<srt_files_by_series, file_i, success_count, successful_series,
                   failed_series, srt_files, successful, failed, attempted, Rest>>

\* main's step to the next series, or to the summary after the last
AfterSeries ==
    IF series_i < Len(srt_files_by_series)
    THEN series_i' = series_i + 1 /\ pc' = "series"
    ELSE series_i' = series_i /\ pc' = "summary"

\* translate.py lines 144-146 and 393-398: process_series returns False for a
\* series without files
EmptySeries ==
    /\ pc = "series"
    /\ srt_files_by_series[series_i] = 0
    /\ failed_series' = Append(failed_series, series_i)
    /\ AfterSeries
    /\ UNCHANGED <<srt_files_by_series, file_i, success_count, successful_series,
                   srt_files, successful, failed, attempted, Rest>>

\* translate.py lines 148-152: process_series enters its loop
StartSeries ==
    /\ pc = "series"
    /\ srt_files_by_series[series_i] > 0
    /\ success_count' = 0
    /\ file_i' = 1
    /\ pc' = "file"
    /\ UNCHANGED <<srt_files_by_series, series_i, successful_series, failed_series,
                   srt_files, successful, failed, attempted, Rest>>

\* The loop's step after the file at file_i ended as `how`
FileTaken(how) ==
    /\ attempted' = Append(attempted, <<series_i, file_i, how>>)
    /\ file_i' = AfterFile(file_i, srt_files_by_series[series_i], how = "ok")
    /\ pc' = IF file_i' > srt_files_by_series[series_i] THEN "series done" ELSE "file"

\* translate.py lines 155-158: read_srt_file returns nothing, the file is skipped
SkipEmptyFile ==
    /\ pc = "file"
    /\ FileTaken("skipped")
    /\ UNCHANGED <<srt_files_by_series, series_i, success_count, successful_series,
                   failed_series, srt_files, successful, failed, Rest>>

\* translate.py lines 160-169: process_single_file returns
ProcessSingleFile ==
    /\ pc = "file"
    /\ \E outcome \in FileOutcomes :
          LET ok == outcome = "success"
          IN  /\ success_count' = IF ok THEN success_count + 1 ELSE success_count
              /\ FileTaken(IF ok THEN "ok" ELSE "failed")
    /\ UNCHANGED <<srt_files_by_series, series_i, successful_series, failed_series,
                   srt_files, successful, failed, Rest>>

\* translate.py lines 171-172 and 393-404: process_series returns
EndSeries ==
    /\ pc = "series done"
    /\ IF success_count > 0
       THEN successful_series' = successful_series + 1 /\ failed_series' = failed_series
       ELSE successful_series' = successful_series
            /\ failed_series' = Append(failed_series, series_i)
    /\ AfterSeries
    /\ UNCHANGED <<srt_files_by_series, file_i, success_count, srt_files, successful,
                   failed, attempted, Rest>>

\* cleanup_srt.py lines 224-236: the scan, and the return when it finds nothing
CleanupScan ==
    /\ pc = "cleanup"
    /\ IF srt_files = 0
       THEN pc' = "exit" /\ file_i' = file_i
       ELSE pc' = "cleanup file" /\ file_i' = 1
    /\ UNCHANGED <<srt_files_by_series, series_i, success_count, successful_series,
                   failed_series, srt_files, successful, failed, attempted, Rest>>

\* cleanup_srt.py lines 238-242: process_srt_file returns True or False
CleanupProcessFile ==
    /\ pc = "cleanup file"
    /\ \E ok \in BOOLEAN :
          /\ successful' = IF ok THEN successful + 1 ELSE successful
          /\ failed' = IF ok THEN failed ELSE failed + 1
          /\ attempted' = Append(attempted, <<0, file_i, IF ok THEN "ok" ELSE "failed">>)
    /\ file_i' = file_i + 1
    /\ pc' = IF file_i' > srt_files THEN "cleanup complete" ELSE "cleanup file"
    /\ UNCHANGED <<srt_files_by_series, series_i, success_count, successful_series,
                   failed_series, srt_files, Rest>>

NextBatch ==
    \/ MakedirsFails
    \/ ScanFolder
    \/ EmptySeries
    \/ StartSeries
    \/ SkipEmptyFile
    \/ ProcessSingleFile
    \/ EndSeries
    \/ CleanupScan
    \/ CleanupProcessFile

SpecBatch == InitBatch /\ [][NextBatch]_vars

\* Both programs are single-threaded and every call in the loops returns
FairBatch == SpecBatch /\ WF_vars(NextBatch)

-----------------------------------------------------------------------------
(* The repair passes on texts that hold pieces of time intervals *)

\* The raw lines: a stray number, an interval, the two halves of an interval
\* broken over lines, a text line, a blank line
BrokenLines ==
    { <<"7">>, IntervalA, Stamp("1") \o <<" ">> \o Arrow, Stamp("2"),
      <<" ", "h", "i", "\r">>, <<>> }

BrokenTexts == {Join(ls) : ls \in SeqsUpTo(BrokenLines, MaxBrokenLines)}

InitBroken ==
    /\ pc = "clean"
    /\ content \in BrokenTexts
    /\ cleaned = None
    /\ fixed = None
    /\ refixed = None
    /\ result = None
    /\ FileIdle /\ DriverIdle /\ SaveIdle /\ BatchIdle

\* cleanup_srt.py line 171: fix_srt_numbering on the output of clean_srt_content
FixCleanedContent ==
    /\ pc = "repaired"
    /\ fixed_content' = fix_srt_numbering(cleaned)
    /\ pc' = "restore"
    /\ UNCHANGED <<repairVars, file_content, source_file, final_content, error, result,
                   driverVars, saveVars, batchVars>>

NextBroken == CleanSrtContent \/ FixSrtNumbering \/ FixSrtNumberingAgain \/ FixCleanedContent

SpecBroken == InitBroken /\ [][NextBroken]_vars

-----------------------------------------------------------------------------
(* Reading a text as the claims read it *)

\* The numeric-only lines of a text, in document order
NumericLines(text) == SelectSeq(Split(text), IsDigit)

\* The lines of an input text, trimmed
TrimmedLines(text) ==
    LET ls == Split(Strip(text)) IN [k \in 1..Len(ls) |-> Strip(ls[k])]

\* The positions of the numeric lines whose next line matches the pattern
ConfirmedAt(ls) == {k \in 1..(Len(ls) - 1) : IsDigit(ls[k]) /\ ReMatch(ls[k + 1])}

\* The input's numeric lines whose next line matches the pattern, in order
ConfirmedNumbers(text) ==
    LET ls == TrimmedLines(text)
        nth(j) == CHOOSE k \in ConfirmedAt(ls) :
                      Cardinality({q \in ConfirmedAt(ls) : q < k}) = j - 1
    IN  [j \in 1..Cardinality(ConfirmedAt(ls)) |-> ls[nth(j)]]

\* No two adjacent lines of the text are both numeric
NoAdjacentNumbers(text) ==
    LET ls == Split(text)
    IN  \A k \in 1..(Len(ls) - 1) : ~(IsDigit(ls[k]) /\ IsDigit(ls[k + 1]))

\* Every numeric line of the text is immediately followed by a time interval
NumbersPrecedeIntervals(text) ==
    LET ls == Split(text)
    IN  \A k \in 1..Len(ls) : IsDigit(ls[k]) => k + 1 <= Len(ls) /\ ReMatch(ls[k + 1])

\* The text outside the time intervals findall reports, from position k
RECURSIVE OutsideIntervals(_, _)
OutsideIntervals(text, k) ==
    IF k > Len(text) THEN <<>>
    ELSE LET e == MatchEnd(text, k)
         IN  IF e # 0 THEN <<"#">> \o OutsideIntervals(text, e + 1)
             ELSE <<text[k]>> \o OutsideIntervals(text, k + 1)

SourceReadable == source_file \notin {None, Missing, Unreadable}

-----------------------------------------------------------------------------
(* Claims *)

\* C1: when the source and the processed text hold the same number n >= 1 of
\* time intervals, the restored text holds the source's intervals, position
\* by position, and the text outside the intervals is unchanged.
C1_RestoredByPosition ==
    (final_content # None /\ SourceReadable
        /\ Len(extract_timestamps_from_content(source_file)) >= 1
        /\ Len(extract_timestamps_from_content(source_file))
             = Len(extract_timestamps_from_content(fixed_content)))
    => /\ extract_timestamps_from_content(final_content)
            = extract_timestamps_from_content(source_file)
       /\ OutsideIntervals(final_content, 1) = OutsideIntervals(fixed_content, 1)

\* C2: when the source and the processed text hold different numbers of
\* time intervals, restoration returns the processed text as given, and
\* process_srt_file goes on to write it and reports success (it reports
\* failure only when reading or writing the file itself raised).
C2_MismatchIsNoOp ==
    (final_content # None /\ SourceReadable
        /\ Len(extract_timestamps_from_content(source_file))
             # Len(extract_timestamps_from_content(fixed_content)))
    => /\ final_content = fixed_content
       /\ pc \in {"write", "returned"}
       /\ (pc = "returned" /\ error = None) => (result = TRUE /\ file_content = fixed_content)
       /\ (pc = "returned" /\ error # None) => (error = <<"write">> /\ result = FALSE)

C2_Witness ==
    /\ pc = "returned" /\ result = TRUE /\ SourceReadable
    /\ Len(extract_timestamps_from_content(fixed_content)) = 1
    /\ Len(extract_timestamps_from_content(source_file)) = 2
    /\ extract_timestamps_from_content(fixed_content)[1]
         # extract_timestamps_from_content(source_file)[1]
    /\ file_content = fixed_content

\* C3: the numeric lines of fix_srt_numbering's output are 1, 2, ..., K in
\* order, K the number of input numeric lines whose next line is a time
\* interval.
C3_ContiguousNumbering ==
    fixed # None
    => NumericLines(fixed) = [k \in 1..Len(ConfirmedNumbers(content)) |-> Str(k)]

C3_Witness ==
    /\ fixed # None
    /\ Len(ConfirmedNumbers(content)) = 2
    /\ ConfirmedNumbers(content) # <<Str(1), Str(2)>>
    /\ NumericLines(fixed) = <<Str(1), Str(2)>>

\* C4: a second pass of fix_srt_numbering leaves the sequence of cue numbers
\* of the first pass's output as it is.
C4_RenumberingIdempotent ==
    refixed # None => NumericLines(refixed) = NumericLines(fixed)

C4_Witness ==
    /\ refixed # None
    /\ Len(NumericLines(fixed)) = 2
    /\ fixed # content

\* C5: clean_srt_content collapses a run of numeric lines before a time
\* interval to its last member: its output holds no two adjacent numeric
\* lines, and its numeric lines are the input's numeric lines that a time
\* interval follows.
C5_DuplicateCollapse ==
    cleaned # None
    => /\ NoAdjacentNumbers(cleaned)
       /\ NumericLines(cleaned) = ConfirmedNumbers(content)

C5_Witness ==
    /\ cleaned # None
    /\ LET ls == TrimmedLines(content)
       IN  \E k \in 1..(Len(ls) - 2) :
               /\ IsDigit(ls[k]) /\ IsDigit(ls[k + 1]) /\ ReMatch(ls[k + 2])
               /\ ls[k] # ls[k + 1]
    /\ Len(NumericLines(cleaned)) = 1

\* C6: in the output of either pass every numeric line is immediately
\* followed by a time interval, and either pass keeps exactly as many numeric
\* lines as the input has numeric lines followed by a time interval: a
\* numeric line followed by anything else, or ending the input, is gone.
C6_StrayNumbersRemoved ==
    /\ cleaned # None
         => /\ NumbersPrecedeIntervals(cleaned)
            /\ Len(NumericLines(cleaned)) = Cardinality(ConfirmedAt(TrimmedLines(content)))
    /\ fixed # None
         => /\ NumbersPrecedeIntervals(fixed)
            /\ Len(NumericLines(fixed)) = Cardinality(ConfirmedAt(TrimmedLines(content)))

C6_Witness ==
    /\ cleaned # None /\ fixed # None
    /\ LET ls == TrimmedLines(content)
       IN  /\ IsDigit(ls[Len(ls)])
           /\ \E k \in 1..(Len(ls) - 1) :
                  IsDigit(ls[k]) /\ ~IsDigit(ls[k + 1]) /\ ~ReMatch(ls[k + 1])
    /\ Len(NumericLines(content)) > Len(NumericLines(fixed))
    /\ Len(NumericLines(content)) > Len(NumericLines(cleaned))

\* C7: after a response with an OK status whose body lacks the expected
\* fields, process_single_file issues no further request and returns failure.
C7_MalformedNotRetried ==
    \A k \in 1..Len(responses) :
        responses[k] \in MalformedBodies
        => /\ k = Len(responses)
           /\ pc = "returned" => result = FALSE

\* C8: process_single_file issues at most max_retries = 3 requests and then
\* returns; a client error is the last request and the result is failure; a
\* 429 or 5xx answer to one of the first two requests leads to another attempt.
C8_AttemptsBounded ==
    /\ requests <= max_retries
    /\ requests = Len(responses)
    /\ pc = "request" => requests < max_retries
    /\ \A k \in 1..Len(responses) :
           /\ responses[k] = "4xx"
                => (k = Len(responses) /\ pc = "returned" /\ result = FALSE)
           /\ (responses[k] \in {"429", "5xx"} /\ k < max_retries)
                => (k < Len(responses) \/ pc = "request")

\* C8, with its end: the bounds hold throughout and process_single_file returns
C8_BoundedRetries == []C8_AttemptsBounded /\ <>(pc = "returned")

C8_Witness ==
    /\ pc = "returned"
    /\ responses = <<"429", "5xx", "429">>
    /\ requests = max_retries
    /\ result = FALSE

\* C9: the numeric lines of the saved text are those of the response, with a
\* single "1" put before them when the first of them is not "1", and with
\* nothing put in when the first of them is "1".
C9_LeadingOneGuard ==
    saved_content # None
    => LET numbers == SelectSeq(TrimmedLines(transliterated_content), IsDigit)
       IN  NumericLines(saved_content)
             = IF numbers # <<>> /\ numbers[1] # <<"1">> THEN <<<<"1">>>> \o numbers
               ELSE numbers

\* C10: find_source_file maps the path the driver writes for B/C/N.srt back
\* to B/C/N.srt, whatever the base name N.
C10_SourcePathRoundTrip ==
    source_file_path # None
    => PathParts(source_file_path) = PathParts(original_file_path)

\* The files of the series from s on, in the order the driver takes them
RECURSIVE FilesFrom(_, _)
FilesFrom(layout, s) ==
    IF s > Len(layout) THEN <<>>
    ELSE [f \in 1..layout[s] |-> <<s, f>>] \o FilesFrom(layout, s + 1)

\* The files taken up so far, without how each ended
AttemptedFiles == [k \in 1..Len(attempted) |-> <<attempted[k][1], attempted[k][2]>>]

C11_EveryFileAttempted ==
    /\ pc = "summary"
         => /\ AttemptedFiles = FilesFrom(srt_files_by_series, 1)
            /\ successful_series + Len(failed_series) = Len(srt_files_by_series)
    /\ pc \in {"cleanup file", "cleanup complete"}
         => successful + failed = Len(attempted)
    /\ pc = "cleanup complete"
         => /\ AttemptedFiles = [f \in 1..srt_files |-> <<0, f>>]
            /\ successful + failed = srt_files

\* C11: whatever each file comes to, the driver takes up every file of every
\* series in order and reaches its summary, and the cleanup processes every
\* file found, successful + failed being their number.
C11_BatchNeverAborts ==
    /\ []C11_EveryFileAttempted
    /\ (pc = "series") ~> (pc = "summary")
    /\ (pc = "cleanup file") ~> (pc = "cleanup complete")

C11_Witness ==
    /\ pc = "summary"
    /\ Len(attempted) = 4
    /\ attempted[1][3] = "failed"
    /\ attempted[2][3] = "skipped"
    /\ attempted[3][3] = "failed"
    /\ attempted[4][3] = "ok"
    /\ failed_series = <<1>>

\* The lines of an output text; the empty text has none
OutputLines(text) == IF text = <<>> THEN <<>> ELSE Split(text)

\* Every line matching the pattern directly follows a numeric line
IntervalsFollowNumbers(ls) ==
    \A k \in 1..Len(ls) : ReMatch(ls[k]) => k > 1 /\ IsDigit(ls[k - 1])

\* C12: on an input in which every time-interval line directly follows a
\* numeric line, fix_srt_numbering's output holds as many numeric lines as
\* interval lines, every interval directly after its number and every number
\* directly before its interval.
C12_NumbersAndIntervalsAlternate ==
    (fixed # None /\ IntervalsFollowNumbers(TrimmedLines(content)))
    => /\ Len(NumericLines(fixed)) = Len(SelectSeq(OutputLines(fixed), ReMatch))
       /\ IntervalsFollowNumbers(OutputLines(fixed))
       /\ NumbersPrecedeIntervals(fixed)

C12_Witness ==
    /\ fixed # None
    /\ IntervalsFollowNumbers(TrimmedLines(content))
    /\ Len(SelectSeq(OutputLines(fixed), ReMatch)) = 1
    /\ Len(NumericLines(content)) = 2
    /\ \E k \in 1..Len(OutputLines(fixed)) :
           LET l == OutputLines(fixed)[k] IN l # <<>> /\ ~IsDigit(l) /\ ~ReMatch(l)

\* C13: no line of fix_srt_numbering's output is empty.
C13_NoEmptyLine ==
    fixed # None => \A k \in 1..Len(OutputLines(fixed)) : OutputLines(fixed)[k] # <<>>

\* The lines that are neither blank nor numeric
ContentLines(ls) == SelectSeq(ls, LAMBDA l : l # <<>> /\ ~IsDigit(l))

BlankLines(ls) == SelectSeq(ls, LAMBDA l : l = <<>>)

\* A pass keeps the content lines of its input, in order, and adds no line
Preserves(input, output) ==
    /\ ContentLines(OutputLines(output)) = ContentLines(TrimmedLines(input))
    /\ Len(BlankLines(OutputLines(output))) <= Len(BlankLines(TrimmedLines(input)))
    /\ SelectSeq(OutputLines(output), ReMatch) = SelectSeq(TrimmedLines(input), ReMatch)

LinesPreserved ==
    /\ cleaned # None => Preserves(content, cleaned)
    /\ fixed # None => Preserves(content, fixed)
    /\ fixed_content # None => Preserves(content, fixed_content)

\* No time interval findall reports in the text runs over a line break
IntervalsWithinLines(text) ==
    LET found == extract_timestamps_from_content(text)
    IN  \A k \in 1..Len(found) : ~Contains(found[k], <<"\n">>)

\* C14: each pass keeps the non-blank, non-numeric lines of its input, once
\* each and in order, and adds no line; the interval lines are those of the
\* input, and the number of intervals restoration counts in the repaired text
\* is the number it counts in the text as read.
C14_ContentPreserved ==
    /\ LinesPreserved
    /\ fixed_content # None
         => Len(extract_timestamps_from_content(fixed_content))
              = Len(extract_timestamps_from_content(content))

\* C14 as amended: the same, the count being unchanged when no interval
\* counted in the repaired text runs over a line break.
C14_ContentPreservedWithinLines ==
    /\ LinesPreserved
    /\ (fixed_content # None /\ IntervalsWithinLines(fixed_content))
         => Len(extract_timestamps_from_content(fixed_content))
              = Len(extract_timestamps_from_content(content))

C14_Witness ==
    /\ fixed_content # None
    /\ IntervalsWithinLines(fixed_content)
    /\ Len(extract_timestamps_from_content(fixed_content)) = 1
    /\ Len(NumericLines(content)) = 2
    /\ Len(NumericLines(fixed_content)) = 1

====
